---------------------------- MODULE Spec2Model ----------------------------
(***************************************************************************)
(* Model of the progress container of uiprogress (src/progress.go): the    *)
(* Progress struct, its mutex, its stop channel tdone, the Listen loop     *)
(* started by Start, and the operations AddBar, RemoveBar, SetOut,         *)
(* SetRefreshInterval, Print (spelled Render in operator names) and Stop.  *)
(*                                                                         *)
(* Every access to the fields of Progress is made with p.mtx held, so a    *)
(* critical section is one step, except where the code reads a field and   *)
(* writes it later (the appends of AddBar and RemoveBar, the range loop of *)
(* Print): those are kept apart so that the mutex, not the model, is what  *)
(* excludes races.                                                         *)
(***************************************************************************)
EXTENDS Integers, Sequences, FiniteSets, TLC

(* ------------------------------- bounds -------------------------------- *)

\* Number of bars AddBar may allocate in one run.
MaxBars == 2

\* Number of Start() calls in one run (one Listen goroutine each).
MaxStarts == 2

\* Number of Stop() calls in one run.
MaxStops == 2

\* The count of loop renders after the stop signal saturates here.
RenderCap == 2

(* ------------------------------ universe ------------------------------- *)

\* Caller goroutines: the threads of the program that call the methods.
Callers == {1, 2}

\* Listen goroutines, one per Start().
Loops == {10 + i : i \in 1..MaxStarts}

Threads == Callers \cup Loops

\* Bar references: 1..MaxBars are allocated by AddBar; ForeignBar is a bar
\* the caller made with NewBar itself, which no container ever held.
ForeignBar == MaxBars + 1

BarRefs == 1..(MaxBars + 1)

\* Arguments of AddBar(total).
Totals == {100}

\* Writers handed to SetOut; "stdout" is the package default Out.
Writers == {"stdout", "w2"}

\* Durations handed to SetRefreshInterval; 10 is the package default (ms).
Intervals == {10, 100}

VARIABLES
    Bars,             \* p.Bars: sequence of bar references
    heap,             \* the bars allocated so far: heap[b] = [Total, Width]
    Out,              \* p.Out
    lwOut,            \* p.lw.Out
    lwBuf,            \* p.lw's buffer: lines written and not yet flushed
    RefreshInterval,  \* p.RefreshInterval
    tdone,            \* p.tdone: "open" or "closed" (unbuffered channel)
    mtx,              \* p.mtx: the set of threads holding it ({} = free)
    pc,               \* pc[t]: where thread t stands
    arg,              \* arg[t]: the argument of the call t is in (a total,
                      \* a bar or a duration)
    argOut,           \* argOut[t]: the writer SetOut was called with
    bar,              \* bar[t]: AddBar's local bar
    rng,              \* rng[t]: the slice a range loop / append has read
    idx,              \* idx[t]: position of the range loop in rng[t]
    ret,              \* ret[t]: the bar AddBar returns
    retOk,            \* retOk[t]: the boolean RemoveBar returns
    interval,         \* interval[l]: Listen's local interval
    mode,             \* mode[l]: which select case loop l took
    panicked,         \* "" or the runtime panic that ended the process
    \* history (never read by the program)
    added,            \* bars in the order AddBar appended them
    removed,          \* bars RemoveBar has taken out of p.Bars
    addReturned,      \* references returned by AddBar calls
    addCount,         \* number of AddBar calls that returned
    removeTrue,       \* bars for which a RemoveBar call returned true
    frame,            \* the lines of the last frame flushed
    flushed,          \* the Flush() of the render in progress: its sink,
                      \* and whether the sink took the frame
    numStarts,        \* Start() calls made
    numStops,         \* Stop() calls made
    stopsReturned,    \* Stop() calls that returned
    signalled,        \* a loop has received the stop signal
    rendersAfterSignal, \* loop renders flushed since then (saturating)
    lateRender,       \* a loop rendered after a Stop() had returned
    restarted,        \* Start() was called after a Stop() had returned
    midWaitOld        \* midWaitOld[l]: the interval of the wait of loop l
                      \* during which p.RefreshInterval was changed to
                      \* another value, kept until the loop begins its
                      \* next wait or takes the stop signal (0: none)

prog == <<Bars, heap, Out, lwOut, lwBuf, RefreshInterval, tdone, mtx>>
locals == <<pc, arg, argOut, bar, rng, idx, ret, retOk, interval, mode>>
barHist == <<added, removed, addReturned, addCount, removeTrue>>
stopHist == <<numStarts, numStops, stopsReturned, signalled,
              rendersAfterSignal, lateRender, restarted>>
sinkHist == <<frame, flushed>>
hist == <<barHist, sinkHist, stopHist, midWaitOld>>
vars == <<prog, locals, panicked, hist>>

(* ------------------------------ helpers -------------------------------- *)

Range(s) == {s[i] : i \in 1..Len(s)}

Min(a, b) == IF a < b THEN a ELSE b

\* p.Width: the package default bar width, which New() copies into it.
Width == "Width"

\* NewBar(total): a fresh bar of the default width; its reference is its
\* position in the heap.
NewBar(total) == [Total |-> total, Width |-> Width]

\* bar.String(): the line a bar renders to, sized to its width.
String(b) == [bar |-> b, width |-> heap[b].Width]

\* No Flush() has been made by a render in progress.
NotFlushed == [to |-> "none", ok |-> TRUE]

(* New(): the container after construction. *)
Init ==
    /\ Bars = <<>>
    /\ heap = <<>>
    /\ Out = "stdout"
    /\ lwOut = "stdout"
    /\ lwBuf = <<>>
    /\ RefreshInterval = 10
    /\ tdone = "open"
    /\ mtx = {}
    /\ pc = [t \in Threads |-> IF t \in Callers THEN "idle" ELSE "unstarted"]
    /\ arg = [t \in Threads |-> 0]
    /\ argOut = [t \in Threads |-> ""]
    /\ bar = [t \in Threads |-> 0]
    /\ rng = [t \in Threads |-> <<>>]
    /\ idx = [t \in Threads |-> 0]
    /\ ret = [t \in Threads |-> 0]
    /\ retOk = [t \in Threads |-> FALSE]
    /\ interval = [l \in Loops |-> 0]
    /\ mode = [l \in Loops |-> "none"]
    /\ panicked = ""
    /\ added = <<>>
    /\ removed = {}
    /\ addReturned = {}
    /\ addCount = 0
    /\ removeTrue = {}
    /\ frame = <<>>
    /\ flushed = NotFlushed
    /\ midWaitOld = [l \in Loops |-> 0]
    /\ numStarts = 0
    /\ numStops = 0
    /\ stopsReturned = 0
    /\ signalled = FALSE
    /\ rendersAfterSignal = 0
    /\ lateRender = FALSE
    /\ restarted = FALSE

\* The process runs: no goroutine has panicked.
Alive == panicked = ""

\* Mutant: a mutex that admits a thread while another holds it.
AcquireAlways(t) == TRUE

(* p.mtx.Lock() can return only when no thread holds the mutex. *)
Acquire(t) == mtx = {}

\* Mutant: Lock() that does not wait for the holder to unlock.
LockNoWait(t) == mtx' = mtx \cup {t}

(* p.mtx.Lock(): blocks until the mutex is free, then holds it. *)
Lock(t) == Acquire(t) /\ mtx' = {t}

(* p.mtx.Unlock(), run by the deferred call when the method returns. *)
Unlock(t) == mtx' = mtx \ {t}

\* A call returns: the caller thread is free again, its locals dead.
Return(t) ==
    /\ pc' = [pc EXCEPT ![t] = "idle"]
    /\ arg' = [arg EXCEPT ![t] = 0]
    /\ argOut' = [argOut EXCEPT ![t] = ""]
    /\ bar' = [bar EXCEPT ![t] = 0]
    /\ rng' = [rng EXCEPT ![t] = <<>>]
    /\ idx' = [idx EXCEPT ![t] = 0]
    /\ ret' = [ret EXCEPT ![t] = 0]
    /\ retOk' = [retOk EXCEPT ![t] = FALSE]

(* ------------------------------- AddBar -------------------------------- *)

\* AddBar calls that have not allocated their bar yet.
AddPending == {t \in Threads : pc[t] = "AddBar_lock"}

AddBarCall(t, total) ==
    /\ Alive /\ pc[t] = "idle"
    /\ Len(heap) + Cardinality(AddPending) < MaxBars
    /\ pc' = [pc EXCEPT ![t] = "AddBar_lock"]
    /\ arg' = [arg EXCEPT ![t] = total]
    /\ UNCHANGED argOut
    /\ UNCHANGED <<prog, bar, rng, idx, ret, retOk, interval, mode, panicked, hist>>

\* p.mtx.Lock(); bar := NewBar(total); bar.Width = p.Width; and the read of
\* p.Bars that append(p.Bars, bar) starts with.
AddBarNew(t) ==
    /\ Alive /\ pc[t] = "AddBar_lock"
    /\ Lock(t)
    /\ heap' = Append(heap, [NewBar(arg[t]) EXCEPT !.Width = Width])
    /\ bar' = [bar EXCEPT ![t] = Len(heap) + 1]
    /\ rng' = [rng EXCEPT ![t] = Bars]
    /\ pc' = [pc EXCEPT ![t] = "AddBar_append"]
    /\ UNCHANGED <<Bars, Out, lwOut, lwBuf, RefreshInterval, tdone>>
    /\ UNCHANGED <<arg, argOut, idx, ret, retOk, interval, mode, panicked, hist>>

\* Mutant: the new bar is put in front of the others.
AddBarPrepend(t) ==
    /\ Alive /\ pc[t] = "AddBar_append"
    /\ Bars' = <<bar[t]>> \o rng[t]
    /\ ret' = [ret EXCEPT ![t] = bar[t]]
    /\ UNCHANGED retOk
    /\ pc' = [pc EXCEPT ![t] = "AddBar_ret"]
    /\ added' = Append(added, bar[t])
    /\ UNCHANGED <<heap, Out, lwOut, lwBuf, RefreshInterval, tdone, mtx>>
    /\ UNCHANGED <<arg, argOut, bar, rng, idx, interval, mode, panicked>>
    /\ UNCHANGED <<removed, addReturned, addCount, removeTrue>>
    /\ UNCHANGED <<sinkHist, stopHist, midWaitOld>>

\* p.Bars = append(p.Bars, bar); return bar
AddBarAppend(t) ==
    /\ Alive /\ pc[t] = "AddBar_append"
    /\ Bars' = Append(rng[t], bar[t])
    /\ ret' = [ret EXCEPT ![t] = bar[t]]
    /\ UNCHANGED retOk
    /\ pc' = [pc EXCEPT ![t] = "AddBar_ret"]
    /\ added' = Append(added, bar[t])
    /\ UNCHANGED <<heap, Out, lwOut, lwBuf, RefreshInterval, tdone, mtx>>
    /\ UNCHANGED <<arg, argOut, bar, rng, idx, interval, mode, panicked>>
    /\ UNCHANGED <<removed, addReturned, addCount, removeTrue>>
    /\ UNCHANGED <<sinkHist, stopHist, midWaitOld>>

\* Mutant: AddBar without its deferred p.mtx.Unlock().
AddBarReturnNoUnlock(t) ==
    /\ Alive /\ pc[t] = "AddBar_ret"
    /\ Return(t)
    /\ addReturned' = addReturned \cup {ret[t]}
    /\ addCount' = addCount + 1
    /\ UNCHANGED <<Bars, heap, Out, lwOut, lwBuf, RefreshInterval, tdone, mtx>>
    /\ UNCHANGED <<interval, mode, panicked>>
    /\ UNCHANGED <<added, removed, removeTrue, sinkHist, stopHist,
                   midWaitOld>>

\* The deferred p.mtx.Unlock(); AddBar has returned.
AddBarReturn(t) ==
    /\ Alive /\ pc[t] = "AddBar_ret"
    /\ Unlock(t)
    /\ Return(t)
    /\ addReturned' = addReturned \cup {ret[t]}
    /\ addCount' = addCount + 1
    /\ UNCHANGED <<Bars, heap, Out, lwOut, lwBuf, RefreshInterval, tdone>>
    /\ UNCHANGED <<interval, mode, panicked>>
    /\ UNCHANGED <<added, removed, removeTrue, sinkHist, stopHist,
                   midWaitOld>>

(* ------------------------------ RemoveBar ------------------------------ *)

\* indexOf: the 0-based index of the first entry equal to b, else -1.
RECURSIVE indexOfFrom(_, _, _)
indexOfFrom(s, b, i) ==
    IF i >= Len(s) THEN -1
    ELSE IF s[i + 1] = b THEN i
    ELSE indexOfFrom(s, b, i + 1)

indexOf(s, b) == indexOfFrom(s, b, 0)

\* Mutant: p.Bars[:i] alone, the bars after the removed one are lost.
RemoveAtTruncate(s, i) == SubSeq(s, 1, i)

\* append(s[:i], s[i+1:]...)
RemoveAt(s, i) == SubSeq(s, 1, i) \o SubSeq(s, i + 2, Len(s))

\* The references a caller can pass: bars AddBar returned, or its own bar.
Held == addReturned \cup {ForeignBar}

RemoveBarCall(t, b) ==
    /\ Alive /\ pc[t] = "idle"
    /\ b \in Held
    /\ pc' = [pc EXCEPT ![t] = "RemoveBar_lock"]
    /\ arg' = [arg EXCEPT ![t] = b]
    /\ UNCHANGED argOut
    /\ UNCHANGED <<prog, bar, rng, idx, ret, retOk, interval, mode, panicked, hist>>

\* Mutant: RemoveBar that looks the bar up without taking the mutex.
RemoveBarFindNoLock(t) ==
    /\ Alive /\ pc[t] = "RemoveBar_lock"
    /\ idx' = [idx EXCEPT ![t] = indexOf(Bars, arg[t])]
    /\ pc' = [pc EXCEPT ![t] = "RemoveBar_cut"]
    /\ UNCHANGED <<prog, arg, argOut, bar, rng, ret, retOk, interval, mode, panicked, hist>>

\* p.mtx.Lock(); i := p.indexOf(bar).
RemoveBarFind(t) ==
    /\ Alive /\ pc[t] = "RemoveBar_lock"
    /\ Lock(t)
    /\ idx' = [idx EXCEPT ![t] = indexOf(Bars, arg[t])]
    /\ pc' = [pc EXCEPT ![t] = "RemoveBar_cut"]
    /\ UNCHANGED <<Bars, heap, Out, lwOut, lwBuf, RefreshInterval, tdone>>
    /\ UNCHANGED <<arg, argOut, bar, rng, ret, retOk, interval, mode, panicked, hist>>

\* The if on i != -1 with the append on p.Bars as it stands, and the value
\* to return.
RemoveBarBody(t) ==
    /\ Alive /\ pc[t] = "RemoveBar_cut"
    /\ pc' = [pc EXCEPT ![t] = "RemoveBar_ret"]
    /\ IF idx[t] # -1
       THEN /\ Bars' = RemoveAt(Bars, idx[t])
            /\ retOk' = [retOk EXCEPT ![t] = TRUE]
            /\ removed' = removed \cup {arg[t]}
       ELSE /\ retOk' = [retOk EXCEPT ![t] = FALSE]
            /\ UNCHANGED <<Bars, removed>>
    /\ UNCHANGED ret
    /\ UNCHANGED <<heap, Out, lwOut, lwBuf, RefreshInterval, tdone, mtx>>
    /\ UNCHANGED <<arg, argOut, bar, rng, idx, interval, mode, panicked>>
    /\ UNCHANGED <<added, addReturned, addCount, removeTrue>>
    /\ UNCHANGED <<sinkHist, stopHist, midWaitOld>>

\* The deferred p.mtx.Unlock(); RemoveBar has returned.
RemoveBarReturn(t) ==
    /\ Alive /\ pc[t] = "RemoveBar_ret"
    /\ Unlock(t)
    /\ Return(t)
    /\ removeTrue' = IF retOk[t] THEN removeTrue \cup {arg[t]} ELSE removeTrue
    /\ UNCHANGED <<Bars, heap, Out, lwOut, lwBuf, RefreshInterval, tdone>>
    /\ UNCHANGED <<interval, mode, panicked>>
    /\ UNCHANGED <<added, removed, addReturned, addCount, sinkHist,
                   stopHist, midWaitOld>>

(* ---------------------- SetOut, SetRefreshInterval ---------------------- *)

SetOutCall(t, o) ==
    /\ Alive /\ pc[t] = "idle"
    /\ pc' = [pc EXCEPT ![t] = "SetOut_lock"]
    /\ argOut' = [argOut EXCEPT ![t] = o]
    /\ UNCHANGED arg
    /\ UNCHANGED <<prog, bar, rng, idx, ret, retOk, interval, mode, panicked, hist>>

\* Mutant: SetOut that assigns the writers without taking the mutex.
SetOutNoLock(t) ==
    /\ Alive /\ pc[t] = "SetOut_lock"
    /\ Out' = argOut[t]
    /\ lwOut' = argOut[t]
    /\ Return(t)
    /\ UNCHANGED <<Bars, heap, lwBuf, RefreshInterval, tdone, mtx>>
    /\ UNCHANGED <<interval, mode, panicked, hist>>

\* p.mtx.Lock(); p.Out = o; p.lw.Out = o; the deferred Unlock; return.
SetOutBody(t) ==
    /\ Alive /\ pc[t] = "SetOut_lock"
    /\ Acquire(t)
    /\ Out' = argOut[t]
    /\ lwOut' = argOut[t]
    /\ Return(t)
    /\ UNCHANGED <<Bars, heap, lwBuf, RefreshInterval, tdone, mtx>>
    /\ UNCHANGED <<interval, mode, panicked, hist>>

SetRefreshIntervalCall(t, d) ==
    /\ Alive /\ pc[t] = "idle"
    /\ pc' = [pc EXCEPT ![t] = "SetRefreshInterval_lock"]
    /\ arg' = [arg EXCEPT ![t] = d]
    /\ UNCHANGED argOut
    /\ UNCHANGED <<prog, bar, rng, idx, ret, retOk, interval, mode, panicked, hist>>

\* p.mtx.Lock(); p.RefreshInterval = interval; the deferred Unlock; return.
SetRefreshIntervalBody(t) ==
    /\ Alive /\ pc[t] = "SetRefreshInterval_lock"
    /\ Acquire(t)
    /\ RefreshInterval' = arg[t]
    /\ Return(t)
    /\ midWaitOld' =
         [l \in Loops |->
            IF pc[l] = "Listen_select"
            THEN (IF arg[t] # interval[l] THEN interval[l] ELSE 0)
            ELSE midWaitOld[l]]
    /\ UNCHANGED <<Bars, heap, Out, lwOut, lwBuf, tdone, mtx>>
    /\ UNCHANGED <<interval, mode, panicked, barHist, sinkHist, stopHist>>


(* ---------------------- Print (the Render actions) ---------------------- *)

\* A caller calls p.Print() directly.
RenderCall(t) ==
    /\ Alive /\ pc[t] = "idle"
    /\ pc' = [pc EXCEPT ![t] = "Print_lock"]
    /\ UNCHANGED <<prog, arg, argOut, bar, rng, idx, ret, retOk, interval, mode, panicked>>
    /\ UNCHANGED hist

\* Mutant: Print() that ranges over p.Bars without taking the mutex.
RenderRangeNoLock(t) ==
    /\ Alive /\ pc[t] = "Print_lock"
    /\ rng' = [rng EXCEPT ![t] = Bars]
    /\ idx' = [idx EXCEPT ![t] = 0]
    /\ pc' = [pc EXCEPT ![t] = "Print_line"]
    /\ UNCHANGED <<prog, arg, argOut, bar, ret, retOk, interval, mode, panicked, hist>>

\* p.mtx.Lock(); for _, bar := range p.Bars: the range expression is
\* evaluated once, before the first iteration.
RenderRange(t) ==
    /\ Alive /\ pc[t] = "Print_lock"
    /\ Lock(t)
    /\ rng' = [rng EXCEPT ![t] = Bars]
    /\ idx' = [idx EXCEPT ![t] = 0]
    /\ pc' = [pc EXCEPT ![t] = "Print_line"]
    /\ UNCHANGED <<Bars, heap, Out, lwOut, lwBuf, RefreshInterval, tdone>>
    /\ UNCHANGED <<arg, argOut, bar, ret, retOk, interval, mode, panicked, hist>>

\* fmt.Fprintln(p.lw, bar.String()): one line into the writer's buffer.
RenderLine(t) ==
    /\ Alive /\ pc[t] = "Print_line"
    /\ idx[t] < Len(rng[t])
    /\ lwBuf' = Append(lwBuf, String(rng[t][idx[t] + 1]))
    /\ idx' = [idx EXCEPT ![t] = idx[t] + 1]
    /\ UNCHANGED <<Bars, heap, Out, lwOut, RefreshInterval, tdone, mtx>>
    /\ UNCHANGED <<pc, arg, argOut, bar, rng, ret, retOk, interval, mode, panicked, hist>>

\* Mutant: Print() that panics on the error of Flush().
RenderFlushFailPanics(t) ==
    /\ Alive /\ pc[t] = "Print_line"
    /\ idx[t] >= Len(rng[t])
    /\ flushed' = [to |-> lwOut, ok |-> FALSE]
    /\ lwBuf' = <<>>
    /\ pc' = [pc EXCEPT ![t] = "Print_ret"]
    /\ panicked' = "sink error"
    /\ UNCHANGED <<Bars, heap, Out, lwOut, RefreshInterval, tdone, mtx>>
    /\ UNCHANGED <<arg, argOut, bar, rng, idx, ret, retOk, interval, mode>>
    /\ UNCHANGED <<barHist, frame, stopHist, midWaitOld>>

\* p.lw.Flush() fails: the write to p.lw.Out returns an error, the sink
\* keeps the frame it had, and the writer's buffer is reset all the same.
\* Print() drops the error of Flush() (as it drops that of Fprintln, whose
\* lines only go to the writer's buffer) and goes on to its return.
RenderFlushFail(t) ==
    /\ Alive /\ pc[t] = "Print_line"
    /\ idx[t] >= Len(rng[t])
    /\ flushed' = [to |-> lwOut, ok |-> FALSE]
    /\ lwBuf' = <<>>
    /\ pc' = [pc EXCEPT ![t] = "Print_ret"]
    /\ rendersAfterSignal' =
         IF t \in Loops /\ signalled
         THEN Min(rendersAfterSignal + 1, RenderCap)
         ELSE rendersAfterSignal
    /\ lateRender' = (lateRender \/ (t \in Loops /\ stopsReturned > 0))
    /\ UNCHANGED <<Bars, heap, Out, lwOut, RefreshInterval, tdone, mtx>>
    /\ UNCHANGED <<arg, argOut, bar, rng, idx, ret, retOk, interval, mode, panicked>>
    /\ UNCHANGED <<barHist, frame, numStarts, numStops, stopsReturned,
                   signalled, restarted, midWaitOld>>

\* p.lw.Flush(): the buffered lines go to p.lw.Out as one frame.
RenderFlush(t) ==
    /\ Alive /\ pc[t] = "Print_line"
    /\ idx[t] >= Len(rng[t])
    /\ frame' = lwBuf
    /\ flushed' = [to |-> lwOut, ok |-> TRUE]
    /\ lwBuf' = <<>>
    /\ pc' = [pc EXCEPT ![t] = "Print_ret"]
    /\ rendersAfterSignal' =
         IF t \in Loops /\ signalled
         THEN Min(rendersAfterSignal + 1, RenderCap)
         ELSE rendersAfterSignal
    /\ lateRender' = (lateRender \/ (t \in Loops /\ stopsReturned > 0))
    /\ UNCHANGED <<Bars, heap, Out, lwOut, RefreshInterval, tdone, mtx>>
    /\ UNCHANGED <<arg, argOut, bar, rng, idx, ret, retOk, interval, mode, panicked>>
    /\ UNCHANGED <<barHist, numStarts, numStops, stopsReturned, signalled,
                   restarted, midWaitOld>>

\* Mutant: the tdone case of Listen without its close and return: after
\* any Print() the loop goes round again.
RenderReturnAround(t) ==
    /\ Alive /\ pc[t] = "Print_ret"
    /\ Unlock(t)
    /\ IF t \in Callers
       THEN Return(t)
       ELSE /\ pc' = [pc EXCEPT ![t] = "Listen_lock"]
            /\ rng' = [rng EXCEPT ![t] = <<>>]
            /\ idx' = [idx EXCEPT ![t] = 0]
            /\ UNCHANGED <<arg, argOut, bar, ret, retOk>>
    /\ flushed' = NotFlushed
    /\ UNCHANGED <<Bars, heap, Out, lwOut, lwBuf, RefreshInterval, tdone>>
    /\ UNCHANGED <<interval, mode, panicked, barHist, frame, stopHist,
                   midWaitOld>>

\* The deferred Unlock and the return: to the caller, or back into Listen.
RenderReturn(t) ==
    /\ Alive /\ pc[t] = "Print_ret"
    /\ Unlock(t)
    /\ IF t \in Callers
       THEN Return(t)
       ELSE /\ pc' = [pc EXCEPT ![t] =
                        IF mode[t] = "final" THEN "Listen_close" ELSE "Listen_lock"]
            /\ rng' = [rng EXCEPT ![t] = <<>>]
            /\ idx' = [idx EXCEPT ![t] = 0]
            /\ UNCHANGED <<arg, argOut, bar, ret, retOk>>
    /\ flushed' = NotFlushed
    /\ UNCHANGED <<Bars, heap, Out, lwOut, lwBuf, RefreshInterval, tdone>>
    /\ UNCHANGED <<interval, mode, panicked, barHist, frame, stopHist,
                   midWaitOld>>

(* ------------------------------- Listen -------------------------------- *)

\* The Listen goroutine the next Start() spawns.
NextLoop == 10 + numStarts + 1

\* Start(): go p.Listen(); returns at once.
Start(t) ==
    /\ Alive /\ pc[t] = "idle"
    /\ numStarts < MaxStarts
    /\ pc' = [pc EXCEPT ![NextLoop] = "Listen_lock"]
    /\ numStarts' = numStarts + 1
    /\ restarted' = (restarted \/ stopsReturned > 0)
    /\ UNCHANGED <<prog, arg, argOut, bar, rng, idx, ret, retOk, interval, mode, panicked>>
    /\ UNCHANGED <<barHist, sinkHist, midWaitOld>>
    /\ UNCHANGED <<numStops, stopsReturned, signalled, rendersAfterSignal,
                   lateRender>>

\* Mutant: the loop reads the interval and keeps the mutex (no Unlock).
ListenReadNoUnlock(l) ==
    /\ Alive /\ pc[l] = "Listen_lock"
    /\ Lock(l)
    /\ interval' = [interval EXCEPT ![l] = RefreshInterval]
    /\ pc' = [pc EXCEPT ![l] = "Listen_select"]
    /\ midWaitOld' = [midWaitOld EXCEPT ![l] = 0]
    /\ UNCHANGED <<Bars, heap, Out, lwOut, lwBuf, RefreshInterval, tdone>>
    /\ UNCHANGED <<arg, argOut, bar, rng, idx, ret, retOk, mode, panicked>>
    /\ UNCHANGED <<barHist, sinkHist, stopHist>>

\* Mutant: the loop waits for the package default RefreshInterval, not for
\* the container's p.RefreshInterval.
ListenReadDefault(l) ==
    /\ Alive /\ pc[l] = "Listen_lock"
    /\ Acquire(l)
    /\ interval' = [interval EXCEPT ![l] = 10]
    /\ pc' = [pc EXCEPT ![l] = "Listen_select"]
    /\ midWaitOld' = [midWaitOld EXCEPT ![l] = 0]
    /\ UNCHANGED <<prog, arg, argOut, bar, rng, idx, ret, retOk, mode, panicked>>
    /\ UNCHANGED <<barHist, sinkHist, stopHist>>

\* Mutant: a loop that keeps the interval of its last wait for one more
\* wait when p.RefreshInterval was changed during that wait.
ListenReadOldOnce(l) ==
    /\ Alive /\ pc[l] = "Listen_lock"
    /\ Acquire(l)
    /\ interval' = [interval EXCEPT ![l] =
                      IF midWaitOld[l] # 0 THEN midWaitOld[l]
                      ELSE RefreshInterval]
    /\ pc' = [pc EXCEPT ![l] = "Listen_select"]
    /\ midWaitOld' = [midWaitOld EXCEPT ![l] = 0]
    /\ UNCHANGED <<prog, arg, argOut, bar, rng, idx, ret, retOk, mode, panicked>>
    /\ UNCHANGED <<barHist, sinkHist, stopHist>>

\* p.mtx.Lock(); interval := p.RefreshInterval; p.mtx.Unlock(); then the
\* select begins its wait with time.After(interval).
ListenRead(l) ==
    /\ Alive /\ pc[l] = "Listen_lock"
    /\ Acquire(l)
    /\ interval' = [interval EXCEPT ![l] = RefreshInterval]
    /\ pc' = [pc EXCEPT ![l] = "Listen_select"]
    /\ midWaitOld' = [midWaitOld EXCEPT ![l] = 0]
    /\ UNCHANGED <<prog, arg, argOut, bar, rng, idx, ret, retOk, mode, panicked>>
    /\ UNCHANGED <<barHist, sinkHist, stopHist>>

\* case <-time.After(interval): the timer fired; p.Print() is called.  The
\* timer is made when the select begins and every interval is positive, so
\* a select that finds p.tdone closed takes that case and no tick.
ListenTick(l) ==
    /\ Alive /\ pc[l] = "Listen_select"
    /\ tdone = "open"
    /\ mode' = [mode EXCEPT ![l] = "tick"]
    /\ interval' = [interval EXCEPT ![l] = 0]
    /\ pc' = [pc EXCEPT ![l] = "Print_lock"]
    /\ UNCHANGED <<prog, arg, argOut, bar, rng, idx, ret, retOk, panicked, hist>>

\* Mutant: the tdone case without its p.Print(): the loop closes the
\* channel as soon as it has received the stop signal.
ListenStopNoRender(l, s) ==
    /\ Alive /\ pc[l] = "Listen_select"
    /\ tdone = "open" /\ pc[s] = "Stop_send"
    /\ mode' = [mode EXCEPT ![l] = "final"]
    /\ interval' = [interval EXCEPT ![l] = 0]
    /\ pc' = [pc EXCEPT ![l] = "Listen_close", ![s] = "Stop_recv"]
    /\ signalled' = TRUE
    /\ midWaitOld' = [midWaitOld EXCEPT ![l] = 0]
    /\ UNCHANGED <<prog, arg, argOut, bar, rng, idx, ret, retOk, panicked>>
    /\ UNCHANGED <<barHist, sinkHist>>
    /\ UNCHANGED <<numStarts, numStops, stopsReturned, rendersAfterSignal,
                   lateRender, restarted>>

\* Mutant: the tdone case closes the channel as soon as it has received,
\* and once more after its p.Print().
ListenStopCloses(l, s) ==
    /\ Alive /\ pc[l] = "Listen_select"
    /\ tdone = "open" /\ pc[s] = "Stop_send"
    /\ tdone' = "closed"
    /\ mode' = [mode EXCEPT ![l] = "final"]
    /\ interval' = [interval EXCEPT ![l] = 0]
    /\ pc' = [pc EXCEPT ![l] = "Print_lock", ![s] = "Stop_recv"]
    /\ signalled' = TRUE
    /\ midWaitOld' = [midWaitOld EXCEPT ![l] = 0]
    /\ UNCHANGED <<Bars, heap, Out, lwOut, lwBuf, RefreshInterval, mtx>>
    /\ UNCHANGED <<arg, argOut, bar, rng, idx, ret, retOk, panicked>>
    /\ UNCHANGED <<barHist, sinkHist>>
    /\ UNCHANGED <<numStarts, numStops, stopsReturned, rendersAfterSignal,
                   lateRender, restarted>>

\* case <-p.tdone: the loop receives what Stop() of caller s sends (the
\* channel is unbuffered: the send completes with this receive).
ListenStop(l, s) ==
    /\ Alive /\ pc[l] = "Listen_select"
    /\ tdone = "open" /\ pc[s] = "Stop_send"
    /\ mode' = [mode EXCEPT ![l] = "final"]
    /\ interval' = [interval EXCEPT ![l] = 0]
    /\ pc' = [pc EXCEPT ![l] = "Print_lock", ![s] = "Stop_recv"]
    /\ signalled' = TRUE
    /\ midWaitOld' = [midWaitOld EXCEPT ![l] = 0]
    /\ UNCHANGED <<prog, arg, argOut, bar, rng, idx, ret, retOk, panicked>>
    /\ UNCHANGED <<barHist, sinkHist>>
    /\ UNCHANGED <<numStarts, numStops, stopsReturned, rendersAfterSignal,
                   lateRender, restarted>>

\* case <-p.tdone on a closed channel: the receive returns at once.
ListenStopClosed(l) ==
    /\ Alive /\ pc[l] = "Listen_select"
    /\ tdone = "closed"
    /\ mode' = [mode EXCEPT ![l] = "final"]
    /\ interval' = [interval EXCEPT ![l] = 0]
    /\ pc' = [pc EXCEPT ![l] = "Print_lock"]
    /\ midWaitOld' = [midWaitOld EXCEPT ![l] = 0]
    /\ UNCHANGED <<prog, arg, argOut, bar, rng, idx, ret, retOk, panicked>>
    /\ UNCHANGED <<barHist, sinkHist, stopHist>>

\* Mutant: neither the close(p.tdone) nor the return: after the render that
\* follows the signal the loop goes round again.
ListenCloseGoesOn(l) ==
    /\ Alive /\ pc[l] = "Listen_close"
    /\ pc' = [pc EXCEPT ![l] = "Listen_lock"]
    /\ UNCHANGED <<tdone, panicked>>
    /\ UNCHANGED <<Bars, heap, Out, lwOut, lwBuf, RefreshInterval, mtx>>
    /\ UNCHANGED <<arg, argOut, bar, rng, idx, ret, retOk, interval, mode, hist>>

\* close(p.tdone); return.  Closing a closed channel panics.
ListenClose(l) ==
    /\ Alive /\ pc[l] = "Listen_close"
    /\ IF tdone = "closed"
       THEN /\ panicked' = "close of closed channel"
            /\ UNCHANGED <<tdone, pc>>
       ELSE /\ tdone' = "closed"
            /\ pc' = [pc EXCEPT ![l] = "done"]
            /\ UNCHANGED panicked
    /\ UNCHANGED <<Bars, heap, Out, lwOut, lwBuf, RefreshInterval, mtx>>
    /\ UNCHANGED <<arg, argOut, bar, rng, idx, ret, retOk, interval, mode, hist>>

(* -------------------------------- Stop --------------------------------- *)

\* Mutant: tdone made with a buffer (make(chan bool, 1)): the send of
\* Stop() completes with no receiver.
StopCallBuffered(t) ==
    /\ Alive /\ pc[t] = "idle"
    /\ numStops < MaxStops
    /\ pc' = [pc EXCEPT ![t] = "Stop_recv"]
    /\ numStops' = numStops + 1
    /\ UNCHANGED <<prog, arg, argOut, bar, rng, idx, ret, retOk, interval, mode, panicked>>
    /\ UNCHANGED <<barHist, sinkHist, midWaitOld>>
    /\ UNCHANGED <<numStarts, stopsReturned, signalled, rendersAfterSignal,
                   lateRender, restarted>>

\* Stop() is called: the caller stands at  p.tdone <- true.
StopCall(t) ==
    /\ Alive /\ pc[t] = "idle"
    /\ numStops < MaxStops
    /\ pc' = [pc EXCEPT ![t] = "Stop_send"]
    /\ numStops' = numStops + 1
    /\ UNCHANGED <<prog, arg, argOut, bar, rng, idx, ret, retOk, interval, mode, panicked>>
    /\ UNCHANGED <<barHist, sinkHist, midWaitOld>>
    /\ UNCHANGED <<numStarts, stopsReturned, signalled, rendersAfterSignal,
                   lateRender, restarted>>

\* p.tdone <- true on a closed channel panics (also when the channel is
\* closed while the send is blocked).
StopSendClosed(t) ==
    /\ Alive /\ pc[t] = "Stop_send"
    /\ tdone = "closed"
    /\ panicked' = "send on closed channel"
    /\ UNCHANGED <<prog, locals, hist>>

\* <-p.tdone of caller r receives what another Stop() (caller s) sends:
\* r returns, s goes on to its own receive.
StopRecvSend(r, s) ==
    /\ Alive /\ pc[r] = "Stop_recv" /\ pc[s] = "Stop_send"
    /\ tdone = "open"
    /\ pc' = [pc EXCEPT ![r] = "idle", ![s] = "Stop_recv"]
    /\ stopsReturned' = stopsReturned + 1
    /\ UNCHANGED <<prog, arg, argOut, bar, rng, idx, ret, retOk, interval, mode, panicked>>
    /\ UNCHANGED <<barHist, sinkHist, midWaitOld>>
    /\ UNCHANGED <<numStarts, numStops, signalled, rendersAfterSignal,
                   lateRender, restarted>>

\* Mutant: Stop() without its final receive: it returns once its send is
\* taken, not waiting for close(p.tdone).
StopRecvNoWait(t) ==
    /\ Alive /\ pc[t] = "Stop_recv"
    /\ pc' = [pc EXCEPT ![t] = "idle"]
    /\ stopsReturned' = stopsReturned + 1
    /\ UNCHANGED <<prog, arg, argOut, bar, rng, idx, ret, retOk, interval, mode, panicked>>
    /\ UNCHANGED <<barHist, sinkHist, midWaitOld>>
    /\ UNCHANGED <<numStarts, numStops, signalled, rendersAfterSignal,
                   lateRender, restarted>>

\* <-p.tdone returns once the channel is closed; Stop() returns.
StopRecvClosed(t) ==
    /\ Alive /\ pc[t] = "Stop_recv"
    /\ tdone = "closed"
    /\ pc' = [pc EXCEPT ![t] = "idle"]
    /\ stopsReturned' = stopsReturned + 1
    /\ UNCHANGED <<prog, arg, argOut, bar, rng, idx, ret, retOk, interval, mode, panicked>>
    /\ UNCHANGED <<barHist, sinkHist, midWaitOld>>
    /\ UNCHANGED <<numStarts, numStops, signalled, rendersAfterSignal,
                   lateRender, restarted>>

(* ---------------------------- specification ---------------------------- *)

\* The calls on the bar collection and the renderer.
BarCalls ==
    \/ \E t \in Callers, total \in Totals : AddBarCall(t, total)
    \/ \E t \in Callers, b \in BarRefs : RemoveBarCall(t, b)
    \/ \E t \in Callers : RenderCall(t)

\* The steps of AddBar, RemoveBar and Print.
BarSteps ==
    \/ \E t \in Callers : AddBarNew(t)
    \/ \E t \in Callers : AddBarAppend(t)
    \/ \E t \in Callers : AddBarReturn(t)
    \/ \E t \in Callers : RemoveBarFind(t)
    \/ \E t \in Callers : RemoveBarBody(t)
    \/ \E t \in Callers : RemoveBarReturn(t)
    \/ \E t \in Threads : RenderRange(t)
    \/ \E t \in Threads : RenderLine(t)
    \/ \E t \in Threads : RenderFlush(t)
    \/ \E t \in Threads : RenderFlushFail(t)
    \/ \E t \in Threads : RenderReturn(t)

\* SetOut and SetRefreshInterval.
Config ==
    \/ \E t \in Callers, o \in Writers : SetOutCall(t, o)
    \/ \E t \in Callers, d \in Intervals : SetRefreshIntervalCall(t, d)
    \/ \E t \in Callers : SetOutBody(t)
    \/ \E t \in Callers : SetRefreshIntervalBody(t)

\* The Listen loop while no stop signal arrives.
LoopSteps ==
    \/ \E l \in Loops : ListenRead(l)
    \/ \E l \in Loops : ListenTick(l)

\* The handshake of Stop() with the Listen loop.
StopSteps ==
    \/ \E l \in Loops, s \in Callers : ListenStop(l, s)
    \/ \E l \in Loops : ListenClose(l)
    \/ \E t \in Callers : StopRecvClosed(t)

\* What only happens when Start() or Stop() is called more than once.
Misuse ==
    \/ \E l \in Loops : ListenStopClosed(l)
    \/ \E t \in Callers : StopSendClosed(t)
    \/ \E r \in Callers, s \in Callers : StopRecvSend(r, s)

\* The supported usage: Start() once, Stop() at most once, and any calls of
\* AddBar, RemoveBar, Print, SetOut and SetRefreshInterval from two threads.
Next ==
    \/ BarCalls
    \/ BarSteps
    \/ Config
    \/ \E t \in Callers : numStarts = 0 /\ Start(t)
    \/ LoopSteps
    \/ \E t \in Callers : numStops = 0 /\ StopCall(t)
    \/ StopSteps

Spec == Init /\ [][Next]_vars

\* Any usage: Start() and Stop() called in any order, up to MaxStarts and
\* MaxStops times, with any calls on the bars.
NextAny ==
    \/ BarCalls
    \/ BarSteps
    \/ \E t \in Callers : Start(t)
    \/ LoopSteps
    \/ \E t \in Callers : StopCall(t)
    \/ StopSteps
    \/ Misuse

SpecAny == Init /\ [][NextAny]_vars

\* The steps of a thread between taking the mutex and releasing it.  Only
\* the thread that holds the mutex can take one.
HolderStep ==
    \E t \in Threads :
        \/ AddBarAppend(t)
        \/ AddBarReturn(t)
        \/ RemoveBarBody(t)
        \/ RemoveBarReturn(t)
        \/ RenderLine(t)
        \/ RenderFlush(t)
        \/ RenderFlushFail(t)
        \/ RenderReturn(t)

\* Scheduling: a goroutine that can take a step takes it in the end (the Go
\* scheduler runs every runnable goroutine); sync.RWMutex hands the mutex
\* to a waiter that keeps waiting (a blocked Lock is queued and served); and
\* a select whose tdone case is ready again and again takes it in the end
\* (select picks among its ready cases at random).  Nothing obliges a caller
\* to call anything, nor a timer to fire.
Fairness ==
    /\ WF_vars(HolderStep)
    /\ WF_vars(\E l \in Loops : ListenClose(l))
    /\ WF_vars(\E t \in Callers : StopRecvClosed(t))
    /\ SF_vars(\E l \in Loops : ListenRead(l) \/ RenderRange(l))
    /\ SF_vars(\E l \in Loops, s \in Callers : ListenStop(l, s))

FairSpec == Spec /\ Fairness

\* The step in which caller t, waiting in p.mtx.Lock(), takes the mutex.
CallerAcquire(t) ==
    \/ AddBarNew(t)
    \/ RemoveBarFind(t)
    \/ SetOutBody(t)
    \/ SetRefreshIntervalBody(t)
    \/ RenderRange(t)

\* Scheduling for the callers: the holder of the mutex goes on to release
\* it, and sync.RWMutex serves every waiter in the end: a Lock() that finds
\* the mutex free again and again is not passed over for ever (a waiter
\* that fails to get the mutex for 1ms puts it in starvation mode, where
\* Unlock hands it to the waiter at the front of the queue).
LockFairness ==
    /\ WF_vars(HolderStep)
    /\ \A t \in Callers : SF_vars(CallerAcquire(t))

LockFairSpec == Spec /\ LockFairness

(* ------------------------------- claims -------------------------------- *)

\* The Listen goroutines that have been started.
Started == {l \in Loops : pc[l] # "unstarted"}

\* The lines a sequence of bars renders to.
Lines(s) == [i \in 1..Len(s) |-> String(s[i])]

StopDrains ==
    /\ rendersAfterSignal <= 1
    /\ ~lateRender
    /\ (\E l \in Loops : pc[l] \in {"Listen_close", "done"}) => rendersAfterSignal = 1
    /\ stopsReturned > 0 => rendersAfterSignal = 1

\* C2 witness: Stop() has returned, one render was made after the signal,
\* and a caller went on using the container afterwards.
DrainedThenUsed ==
    /\ stopsReturned = 1
    /\ rendersAfterSignal = 1
    /\ \E t \in Callers : pc[t] = "Print_ret"

\* C3 (as claimed): Stop() on a container that was started once and already
\* stopped does not panic.
SecondStopDoesNotPanic ==
    ~(numStarts = 1 /\ stopsReturned >= 1 /\ panicked = "send on closed channel")

\* C4: while Start() has not been called, no Stop() call gets past its send:
\* none is at its receive and none has returned, whatever else was called.
StopWithoutStartBlocks ==
    numStarts = 0 =>
        /\ stopsReturned = 0
        /\ \A t \in Callers : pc[t] # "Stop_recv"
        /\ Cardinality({t \in Callers : pc[t] = "Stop_send"}) = numStops

\* C4 witness: no Start(); one caller is blocked in Stop() while the other has
\* added a bar and rendered it since.
StopBlockedWithoutStart ==
    /\ numStarts = 0
    /\ \E t \in Callers : pc[t] = "Stop_send"
    /\ frame # <<>>
    /\ \E t \in Callers : pc[t] = "RemoveBar_ret"

\* The bars of s that are not in the set gone, in the order of s.
RECURSIVE Minus(_, _)
Minus(s, gone) ==
    IF s = <<>> THEN <<>>
    ELSE IF Head(s) \in gone THEN Minus(Tail(s), gone)
    ELSE <<Head(s)>> \o Minus(Tail(s), gone)

\* The threads that have flushed a frame and not yet released the mutex.
Flushed == {t \in Threads : pc[t] = "Print_ret" /\ flushed.ok}

\* The bars whose lines make up the last frame.
FrameBars == {frame[i].bar : i \in 1..Len(frame)}

\* C6: p.Bars is always the bars in the order AddBar appended them, less
\* those RemoveBar removed; and a frame just flushed holds one line per bar
\* of p.Bars, in that order.
OrderPreserved ==
    /\ Bars = Minus(added, removed)
    /\ \A t \in Flushed : frame = Lines(Bars)

\* C6 witness: a frame of two bars, B1 then B2, with no removal.
FrameOfTwoBars ==
    /\ Flushed # {}
    /\ removed = {}
    /\ added = <<1, 2>>
    /\ frame = Lines(<<1, 2>>)

\* C7: the step of RemoveBar(b) sets the result to true exactly when b is
\* in p.Bars, and then p.Bars loses that one entry and keeps the others in
\* order; it yields false for a bar removed before and for a bar that was
\* never added, and then leaves p.Bars as it is.
RemoveBarCorrect ==
    [][\A t \in Callers :
         (pc[t] = "RemoveBar_cut" /\ pc'[t] = "RemoveBar_ret") =>
            /\ retOk'[t] = (arg[t] \in Range(Bars))
            /\ Bars' = Minus(Bars, {arg[t]})
            /\ retOk'[t] => Len(Bars') = Len(Bars) - 1
            /\ arg[t] \in removed => ~retOk'[t]
            /\ arg[t] \notin Range(added) => ~retOk'[t] /\ Bars' = Bars]_vars

\* C7 witness: RemoveBar of the first of two bars has returned true, and a
\* second RemoveBar of the same bar is about to return false.
SecondRemoveFalse ==
    /\ added = <<1, 2>>
    /\ Bars = <<2>>
    /\ 1 \in removeTrue
    /\ \E t \in Callers : pc[t] = "RemoveBar_ret" /\ arg[t] = 1 /\ ~retOk[t]

\* The AddBar calls that have appended their bar and not yet returned.
Appended == {t \in Callers : pc[t] = "AddBar_ret"}

\* C8: p.Bars never holds a reference twice, the references AddBar has
\* returned are all different, and while nothing was removed every one of
\* them is in p.Bars and p.Bars holds exactly one bar per AddBar call that
\* has appended.
NoDuplication ==
    /\ Cardinality(Range(Bars)) = Len(Bars)
    /\ Cardinality(addReturned) = addCount
    /\ removed = {} =>
          /\ addReturned \subseteq Range(Bars)
          /\ Len(Bars) = addCount + Cardinality(Appended)

\* C8 witness: two AddBar calls run at once: one has appended its bar and
\* holds the mutex, the other waits for it; then both have returned.
ConcurrentAddBar ==
    /\ pc[1] = "AddBar_lock"
    /\ pc[2] = "AddBar_ret"
    /\ removed = {}

\* C9: a frame just flushed is p.Bars as it stands; it holds no bar whose
\* RemoveBar has returned true and every bar whose AddBar has returned and
\* that was not removed (so none removed, and all added, before the render
\* began).
RenderAtomic ==
    \A t \in Flushed :
        /\ frame = Lines(Bars)
        /\ FrameBars \cap removeTrue = {}
        /\ (addReturned \ removed) \subseteq FrameBars

\* C9 witness: a frame flushed after bar 1 was removed, while another
\* thread waits to remove bar 2: the frame holds bar 2 alone.
RenderBetweenRemoves ==
    /\ Flushed # {}
    /\ removeTrue = {1}
    /\ added = <<1, 2>>
    /\ frame = Lines(<<2>>)
    /\ \E u \in Callers : pc[u] = "RemoveBar_lock" /\ arg[u] = 2

\* The threads inside the line-writing and flush section of Print().
Writing == {t \in Threads : pc[t] \in {"Print_line", "Print_ret"}}

\* C10: at most one thread is inside the line-writing and flush section,
\* and the writer's buffer holds the lines of that thread's frame alone:
\* the first idx lines of its range, or nothing once it has flushed.
RendersSequential ==
    /\ Cardinality(Writing) <= 1
    /\ Writing = {} => lwBuf = <<>>
    /\ \A t \in Writing :
          lwBuf = IF pc[t] = "Print_ret" THEN <<>>
                  ELSE Lines(SubSeq(rng[t], 1, idx[t]))

\* C10 witness: the loop is half way through a frame of two bars while a
\* caller's Print() waits for the mutex.
RenderWaitsForRender ==
    /\ \E l \in Loops : pc[l] = "Print_line" /\ Len(rng[l]) = 2 /\ idx[l] = 1
    /\ \E t \in Callers : pc[t] = "Print_lock"

\* C5: with Start() called once, a Stop() that has been called returns in
\* the end, whatever ticks fire and whatever the callers go on calling.
StopReturns == (numStarts = 1 /\ numStops = 1) ~> (stopsReturned = 1)

\* C5 witness: Stop() has returned although, since it was called, the loop
\* ticked and another thread changed the bars, the writer and the interval.
StopReturnedUnderLoad ==
    /\ stopsReturned = 1
    /\ numStarts = 1
    /\ Len(Bars) = 2
    /\ Out = "w2"
    /\ RefreshInterval = 100


SinkSwitchesBetweenFrames ==
    [][ /\ \A t \in Threads :
              (pc[t] = "Print_line" /\ pc'[t] = "Print_ret")
                  => /\ flushed'.to = lwOut
                     /\ lwOut = Out
                     /\ flushed'.ok => frame' = Lines(rng[t])
        /\ Writing # {} => (Out' = Out /\ lwOut' = lwOut)
        /\ \A t \in Callers :
              (pc[t] = "SetOut_lock" /\ pc'[t] = "idle")
                  => /\ Out' = argOut[t] /\ lwOut' = argOut[t]
                     /\ Writing = {}
                     /\ lwBuf = <<>>
      ]_vars

\* C12 witness: SetOut("w2") was called while the loop was rendering a frame
\* of two bars; the loop has flushed the frame to "stdout", the sink it
\* began with, and SetOut still waits for the mutex.
FrameOnPreviousSink ==
    /\ \E t \in Callers : pc[t] = "SetOut_lock" /\ argOut[t] = "w2"
    /\ \E l \in Loops : pc[l] = "Print_ret"
    /\ flushed.to = "stdout"
    /\ Len(frame) = 2


\* C13: the render the loop makes on the stop signal flushes p.Bars as it
\* stands (the frame the sink takes, when the Flush() does not fail), which
\* holds no bar whose RemoveBar has returned true and every
\* bar whose AddBar has returned and that was not removed (all the calls
\* that returned before Stop() was called among them); Stop() returns only
\* after that frame was flushed; and once Stop() has returned the loop
\* flushes nothing, so only a Print() of a caller can replace that frame.
FinalFrameIsLast ==
    [][ /\ \A l \in Loops :
              (pc[l] = "Print_line" /\ pc'[l] = "Print_ret"
                  /\ mode[l] = "final" /\ signalled /\ flushed'.ok)
                  => /\ frame' = Lines(Bars)
                     /\ Range(Bars) \cap removeTrue = {}
                     /\ (addReturned \ removed) \subseteq Range(Bars)
        /\ stopsReturned' > stopsReturned => rendersAfterSignal = 1
        /\ stopsReturned > 0
              => \A l \in Loops :
                    ~(pc[l] = "Print_line" /\ pc'[l] = "Print_ret")
        /\ (stopsReturned > 0 /\ frame' # frame)
              => \E t \in Callers : pc[t] = "Print_line" /\ pc'[t] = "Print_ret"
      ]_vars

\* C13 witness: two bars were added and the first removed, Stop() has
\* returned, and the frame on the sink is the final state: bar 2 alone.
FinalFrameShown ==
    /\ added = <<1, 2>>
    /\ removeTrue = {1}
    /\ stopsReturned = 1
    /\ rendersAfterSignal = 1
    /\ frame = Lines(<<2>>)
    /\ \A t \in Callers : pc[t] = "idle"


\* C14: a Flush() that fails changes neither the bars, nor what a call
\* returns, nor the stop channel, and panics nothing: the render goes on to
\* its return as one that succeeded; and a loop whose render failed comes
\* to wait for the next tick again, or, if that was its final render,
\* returns, after which the Stop() that signalled it returns.
FailedRenderGoesOn ==
    /\ [][ \A t \in Threads :
              (pc[t] = "Print_line" /\ pc'[t] = "Print_ret" /\ ~flushed'.ok)
                  => /\ panicked' = ""
                     /\ mtx' = mtx
                     /\ UNCHANGED <<Bars, heap, tdone, ret, retOk, mode, barHist>>
         ]_vars
    /\ (\E l \in Loops : pc[l] = "Print_ret" /\ ~flushed.ok)
          ~> (\E l \in Loops : \/ pc[l] = "Listen_select"
                                \/ (pc[l] = "done" /\ stopsReturned = 1))

\* C14 witness: the Flush() of a tick render of two bars has failed in the
\* loop while one caller stands in Stop() and the other waits in RemoveBar.
FlushFailedUnderLoad ==
    /\ \E l \in Loops : /\ pc[l] = "Print_ret" /\ mode[l] = "tick"
                         /\ Len(rng[l]) = 2
    /\ ~flushed.ok
    /\ \E t \in Callers : pc[t] = "Stop_send"
    /\ \E t \in Callers : pc[t] = "RemoveBar_lock"


\* C15: a select takes one case: the step in which a loop receives the stop
\* signal puts it in the tdone case, at the call of its final Print(); a
\* loop in the tdone case stays in it and never comes back to the top of
\* its loop or to its select, so it takes no tick; and a tick is only ever
\* taken by a loop that stands at its select.
NoTickAfterSignal ==
    [][ \A l \in Loops :
          /\ (mode[l] # "final" /\ mode'[l] = "final")
                => /\ pc[l] = "Listen_select" /\ pc'[l] = "Print_lock"
                   /\ signalled'
          /\ mode[l] = "final"
                => /\ mode'[l] = "final"
                   /\ pc'[l] \in {"Print_lock", "Print_line", "Print_ret",
                                  "Listen_close", "done"}
          /\ (mode'[l] = "tick" /\ pc'[l] = "Print_lock" /\ pc[l] # "Print_lock")
                => pc[l] = "Listen_select" /\ mode[l] # "final"
      ]_vars

\* C15 witness: the loop took the stop signal at its select, where a tick
\* could have been taken as well, and has flushed its final render of two
\* bars, the only render since the signal.
FinalRenderAfterTicks ==
    /\ \E l \in Loops : pc[l] = "Print_ret" /\ mode[l] = "final"
    /\ signalled
    /\ rendersAfterSignal = 1
    /\ flushed.ok
    /\ Len(frame) = 2


StoppedIsTerminal ==
    (stopsReturned = 1 /\ numStops = 1 /\ (numStarts = 1 \/ restarted))
        => /\ panicked = ""
           /\ \A l \in Loops :
                 pc[l] \in {"unstarted", "done"} \/ mode[l] # "tick"


\* The places where a thread stands inside a critical section of p.mtx.
InSection ==
    {"AddBar_append", "AddBar_ret", "RemoveBar_cut", "RemoveBar_ret",
     "Print_line", "Print_ret"}

\* The places where a caller waits in p.mtx.Lock().
LockWaits ==
    {"AddBar_lock", "RemoveBar_lock", "SetOut_lock",
     "SetRefreshInterval_lock", "Print_lock"}

\* C18: a thread holds the mutex exactly while it stands inside a critical
\* section: never while the loop waits at its select, before or after its
\* loop, or at close(p.tdone), and never once a call has returned or while
\* a caller stands in Stop(); and every call of AddBar, RemoveBar, SetOut,
\* SetRefreshInterval or Print that waits for the mutex gets it and returns
\* in the end, whether the loop is running, stopping or gone.
LockReleasedAndServed ==
    /\ [](\A t \in Threads : (t \in mtx) <=> (pc[t] \in InSection))
    /\ \A t \in Callers : (pc[t] \in LockWaits) ~> (pc[t] = "idle")

\* C18 witness: the loop waits at its select, for a tick or for the stop
\* signal of a caller that stands in Stop(), while the other caller holds
\* the mutex inside a Print() of two bars.
LoopWaitsWithoutLock ==
    /\ \E l \in Loops : pc[l] = "Listen_select" /\ l \notin mtx
    /\ \E t \in Callers : pc[t] = "Stop_send"
    /\ \E t \in Callers : pc[t] = "Print_line" /\ t \in mtx /\ Len(rng[t]) = 2


\* C19: with Start() called at most once and Stop() at most once, whatever
\* else the callers call, nothing panics and no step that would panic is
\* ever possible: no Stop() stands at its send when p.tdone is closed; a
\* loop stands at close(p.tdone) only with the channel open and the stop
\* signal received; no loop waits at its select on a closed channel; and
\* the channel is closed only after the signal, by the one loop, which has
\* returned.
NoPanicWhenSupported ==
    /\ panicked = ""
    /\ \A t \in Callers : pc[t] = "Stop_send" => tdone = "open"
    /\ \A l \in Loops :
          /\ pc[l] = "Listen_close" => (tdone = "open" /\ signalled)
          /\ pc[l] = "Listen_select" => tdone = "open"
    /\ tdone = "closed"
          => /\ signalled
             /\ Cardinality({l \in Loops : pc[l] = "done"}) = 1
             /\ \A l \in Loops : pc[l] \in {"unstarted", "done"}

\* C19 witness: the loop has closed p.tdone and returned, the Stop() that
\* signalled it has not yet come back from its receive, and the other
\* caller is inside a Print() of two bars.
ClosedOnceUnderLoad ==
    /\ tdone = "closed"
    /\ \E l \in Loops : pc[l] = "done"
    /\ \E t \in Callers : pc[t] = "Stop_recv"
    /\ \E t \in Callers : pc[t] = "Print_line" /\ Len(rng[t]) = 2


\* The callers inside the critical section of RemoveBar.
Removing == {t \in Callers : pc[t] \in {"RemoveBar_cut", "RemoveBar_ret"}}

\* C20: RemoveBar calls take turns, also two calls for the same bar: at most
\* one is between its lookup and its return.  The call that finds the bar
\* is the first to take it out: p.Bars loses that one entry and no other
\* bar, and no call has returned true for that bar before; a call that
\* returns false for a bar that was added returns after another call took
\* the bar out, and leaves p.Bars as it is.
ConcurrentRemoveOnce ==
    [][ /\ Cardinality(Removing) <= 1
        /\ \A t \in Callers :
              /\ (pc[t] = "RemoveBar_cut" /\ pc'[t] = "RemoveBar_ret")
                    => IF retOk'[t]
                       THEN /\ arg[t] \notin removed
                            /\ arg[t] \notin removeTrue
                            /\ Len(Bars') = Len(Bars) - 1
                            /\ Range(Bars') = Range(Bars) \ {arg[t]}
                       ELSE /\ Bars' = Bars
                            /\ arg[t] \in Range(added) => arg[t] \in removed
              /\ (pc[t] = "RemoveBar_ret" /\ pc'[t] = "idle" /\ retOk[t])
                    => arg[t] \notin removeTrue
      ]_vars

\* C20 witness: both callers called RemoveBar of bar 1 while it was in
\* p.Bars next to bar 2; one has taken it out and is about to return true,
\* the other still waits for the mutex; bar 2 is still there.
TwoRemovesOfOneBar ==
    /\ added = <<1, 2>>
    /\ Bars = <<2>>
    /\ \E t \in Callers : pc[t] = "RemoveBar_ret" /\ arg[t] = 1 /\ retOk[t]
    /\ \E u \in Callers : pc[u] = "RemoveBar_lock" /\ arg[u] = 1

=============================================================================
